---- MODULE Spec2Model ----
(***************************************************************************)
(* Game Sentry (src/game_sentry.py): the time-budget and gating engine of  *)
(* GameSentryApp.  The state is the application object's fields, the user  *)
(* documents and their session arrays in the document database, and the   *)
(* wall clock.  Times are counted in clock ticks since 00:00:00 of day 0.  *)
(*                                                                         *)
(* Strings are modelled by their fields:                                   *)
(*   "HH:MM"                 <<h, m>>                                       *)
(*   "HH:MM:SS"              <<h, m, s>>                                    *)
(*   "YYYY-MM-DD HH:MM:SS"   <<day, h, m, s>>                               *)
(*   notification keys       sequences of tokens, "_" being a token        *)
(* so that formatting drops what the format drops and parsing fails on     *)
(* what strptime / int() reject.                                           *)
(*                                                                         *)
(* _check_block_limit and _check_rest_period_end are methods of the        *)
(* application with no call site in the file; they, and _check_daily_limit,*)
(* are modelled as operations a caller may invoke for any user.            *)
(***************************************************************************)
EXTENDS Integers, Sequences, FiniteSets, TLC

\* ---------------------------------------------------------------- bounds
TicksPerSec == 2      \* clock resolution: ticks per second
MaxDay == 1           \* the clock stops advancing after this day
MaxSessions == 1      \* live sessions started, all users together
MaxLogLen == 1        \* entries a session array may hold when a manual entry is added

\* ------------------------------------------------------ calendar constants
SecPerMin == 60
MinPerHour == 60
HoursPerDay == 24
SecPerHour == 3600
DefaultRestMinutes == 60

TicksPerMin == SecPerMin * TicksPerSec
TicksPerDay == HoursPerDay * MinPerHour * TicksPerMin

None == -1

ROLE_PARENT == "Parent"
ROLE_KID == "Kid"

\* ------------------------------------------------------------ user ids
UserA == <<"a">>
UserB == <<"b">>
Users == {UserA, UserB}
NoUser == <<>>

\* dict.get(field, default)
Get(doc, field, default) == IF field \in DOMAIN doc THEN doc[field] ELSE default
Has(doc, field) == field \in DOMAIN doc

\* -------------------------------------------------------- clock readings
At(d, h, m, s, k) == (((d * HoursPerDay + h) * MinPerHour + m) * SecPerMin + s) * TicksPerSec + k

DateOf(t) == t \div TicksPerDay
TimeOf(t) == t % TicksPerDay
StartOfDay(t) == DateOf(t) * TicksPerDay

\* strftime('%Y-%m-%d %H:%M:%S'): the sub-second part is dropped
FormatDateTime(t) ==
    LET secs == TimeOf(t) \div TicksPerSec
    IN  << DateOf(t), secs \div SecPerHour, (secs % SecPerHour) \div SecPerMin, secs % SecPerMin >>

ValidDateTime(s) ==
    /\ Len(s) = 4
    /\ s[1] >= 0
    /\ s[2] \in 0 .. (HoursPerDay - 1)
    /\ s[3] \in 0 .. (MinPerHour - 1)
    /\ s[4] \in 0 .. (SecPerMin - 1)

\* strptime(s, '%Y-%m-%d %H:%M:%S') of a string ValidDateTime accepts
ParseDateTime(s) == At(s[1], s[2], s[3], s[4], 0)

\* ValidHM without the range checks on the fields
ValidHMAnyNumber(s) == Len(s) = 2

\* strptime(s, '%H:%M').time(): hour 0..23, minute 0..59, anything else raises
ValidHM(s) ==
    /\ Len(s) = 2
    /\ s[1] \in 0 .. (HoursPerDay - 1)
    /\ s[2] \in 0 .. (MinPerHour - 1)

ParseHM(s) == At(0, s[1], s[2], 0, 0)

\* _format_duration(seconds): int() of the float, then HH:MM:SS
_format_duration(ticks) ==
    LET seconds == ticks \div TicksPerSec
    IN  << seconds \div SecPerHour, (seconds % SecPerHour) \div SecPerMin, seconds % SecPerMin >>

\* duration_str.split(':') with three int parts
DurationSeconds(d) == d[1] * SecPerHour + d[2] * SecPerMin + d[3]


\* ------------------------------------------------------------------ state
VARIABLES
    now,                        \* datetime.now(), in ticks
    users_db,                   \* users collection: user id -> document (without its sessions)
    sessions,                   \* the 'sessions' array of each user document
    current_view,               \* self.current_view
    current_kid_user,           \* self.current_kid_user (its id), NoUser for None
    kid_timer_running,          \* self.kid_timer_running
    kid_timer_start_time,       \* self.kid_timer_start_time, None when unset
    kid_timer_job,              \* self.kid_timer_job: "none", "live" (its callback is pending) or "stale"
    orphan_jobs,                \* pending after() callbacks no field refers to any more
    daily_limit_notifications,  \* self.daily_limit_notifications
    block_limit_notifications,  \* self.block_limit_notifications
    kid_rest_periods,           \* self.kid_rest_periods: user id -> [start_time, duration_minutes]
    lunch_confirmed_today,      \* self.lunch_confirmed_today: user id -> date
    started,                    \* history: live sessions started so far
    last,                       \* history: the last operation, its user, its outcome, the prompts it showed
    events,                     \* history: the notifications the last operation raised
    raised,                     \* history: notifications raised so far, per <<kind, user, day>>
    rest_over                   \* history: the implied end of the RestState last deleted, per user

vars == << now, users_db, sessions, current_view, current_kid_user, kid_timer_running,
           kid_timer_start_time, kid_timer_job, orphan_jobs, daily_limit_notifications,
           block_limit_notifications, kid_rest_periods, lunch_confirmed_today,
           started, last, events, raised, rest_over >>

appVars == << current_view, current_kid_user, kid_timer_running, kid_timer_start_time,
              kid_timer_job, orphan_jobs >>
limitVars == << daily_limit_notifications, block_limit_notifications, kid_rest_periods >>

Today == DateOf(now)

Kinds == {"daily", "block", "rest_ended"}

Event(kind, u, limit, usage, rest) ==
    [kind |-> kind, user |-> u, limit |-> limit, usage |-> usage, rest |-> rest]

Op(op, u, result, asked) == [op |-> op, user |-> u, result |-> result, asked |-> asked]

\* the history of an operation that raised the events evs
Record(op, evs) ==
    /\ last' = op
    /\ events' = evs
    /\ raised' = IF evs = {} THEN raised
                 ELSE [k \in DOMAIN raised |->
                         raised[k] + Cardinality({e \in evs : <<e.kind, e.user, Today>> = k})]
    /\ rest_over' = IF evs = {} THEN rest_over
                    ELSE [u \in DOMAIN rest_over |->
                            IF \E e \in evs : e.kind = "rest_ended" /\ e.user = u
                            THEN kid_rest_periods[u].start_time
                                   + kid_rest_periods[u].duration_minutes * TicksPerMin
                            ELSE rest_over[u]]

\* ------------------------------------------------------- notification keys
DateNames == << "2025-06-01", "2025-06-02", "2025-06-03", "2025-06-04",
                "2025-06-05", "2025-06-06", "2025-06-07", "2025-06-08" >>

\* str(date)
DateStr(d) == DateNames[d + 1]

\* DailyKey without the user id: one key per day for all users
DailyKeyNoUser(u, d) == << "daily", "_", DateStr(d) >>

\* f"{user_id}_{date}"
DailyKey(u, d) == u \o << "_", DateStr(d) >>

\* f"block_{user_id}_{date}"
BlockKey(u, d) == << "block", "_" >> \o u \o << "_", DateStr(d) >>

\* key.split('_', 1): the position of the first "_", 0 when there is none
FirstUnderscore(key) ==
    LET idx == {i \in 1 .. Len(key) : key[i] = "_"}
    IN  IF idx = {} THEN 0 ELSE CHOOSE i \in idx : \A j \in idx : i <= j

\* datetime.strptime(date_str, '%Y-%m-%d') succeeds
IsDateStr(s) == Len(s) = 1 /\ \E d \in 1 .. Len(DateNames) : DateNames[d] = s[1]

ParseDate(s) == (CHOOSE d \in 1 .. Len(DateNames) : DateNames[d] = s[1]) - 1

\* KeyExpired with the age test off by two: today's key counts as old
KeyExpiredToday(key, today) ==
    LET i == FirstUnderscore(key)
        date_str == SubSeq(key, i + 1, Len(key))
    IN  IF i = 0 \/ ~IsDateStr(date_str)
        THEN TRUE
        ELSE (today - ParseDate(date_str)) > -1

\* _cleanup_old_notifications: the keys it removes
KeyExpired(key, today) ==
    LET i == FirstUnderscore(key)
        date_str == SubSeq(key, i + 1, Len(key))
    IN  IF i = 0 \/ ~IsDateStr(date_str)
        THEN TRUE
        ELSE (today - ParseDate(date_str)) > 1

_cleanup_old_notifications(keys, today) == {k \in keys : ~KeyExpired(k, today)}


\* ------------------------------------------------------ usage calculators
\* DailyEntrySeconds that selects the entries by their stop date
DailyEntrySecondsByStop(entry, today) ==
    IF ~ValidDateTime(entry.stop) THEN 0
    ELSE IF DateOf(ParseDateTime(entry.stop)) # today THEN 0
    ELSE IF Len(entry.duration) # 3 THEN 0
    ELSE DurationSeconds(entry.duration)

\* DailyEntrySeconds that counts an entry whose start does not parse
DailyEntrySecondsNoSkip(entry, today) ==
    IF Len(entry.duration) # 3 THEN 0
    ELSE IF ValidDateTime(entry.start) /\ DateOf(ParseDateTime(entry.start)) # today THEN 0
    ELSE DurationSeconds(entry.duration)

\* one iteration of the loop over the sessions: the seconds the entry adds
\* (an entry whose start does not parse is skipped by the except clause)
DailyEntrySeconds(entry, today) ==
    IF ~ValidDateTime(entry.start) THEN 0
    ELSE IF DateOf(ParseDateTime(entry.start)) # today THEN 0
    ELSE IF Len(entry.duration) # 3 THEN 0
    ELSE DurationSeconds(entry.duration)

BlockEntrySeconds(entry, today, last_rest_end) ==
    IF ~ValidDateTime(entry.start) THEN 0
    ELSE IF ~(DateOf(ParseDateTime(entry.start)) = today /\ ParseDateTime(entry.start) >= last_rest_end) THEN 0
    ELSE IF Len(entry.duration) # 3 THEN 0
    ELSE DurationSeconds(entry.duration)

RECURSIVE SumDaily(_, _)
SumDaily(log, today) ==
    IF log = << >> THEN 0
    ELSE DailyEntrySeconds(Head(log), today) + SumDaily(Tail(log), today)

RECURSIVE SumBlock(_, _, _)
SumBlock(log, today, last_rest_end) ==
    IF log = << >> THEN 0
    ELSE BlockEntrySeconds(Head(log), today, last_rest_end) + SumBlock(Tail(log), today, last_rest_end)

\* LiveSeconds without the test that the running timer is the user's
LiveSecondsAnyUser(u, running, start_time, kid) ==
    IF running /\ start_time # None
    THEN (now - start_time) \div TicksPerSec
    ELSE 0

\* "Add current session time if timer is running": given the timer fields and
\* the log as they are when the usage is read
LiveSeconds(u, running, start_time, kid) ==
    IF running /\ start_time # None /\ kid = u
    THEN (now - start_time) \div TicksPerSec
    ELSE 0

_calculate_daily_usage(u, log, running, start_time, kid) ==
    SumDaily(log, Today) + LiveSeconds(u, running, start_time, kid)

RestEnd(rest_data) == rest_data.start_time + rest_data.duration_minutes * TicksPerMin

\* _is_user_in_rest that still rests at the instant the rest ends
_is_user_in_rest_inclusive(u, rests) ==
    IF u \notin DOMAIN rests THEN FALSE ELSE now <= RestEnd(rests[u])

_is_user_in_rest(u, rests) ==
    IF u \notin DOMAIN rests THEN FALSE ELSE now < RestEnd(rests[u])

\* _get_last_rest_end_time that ignores the RestState
_get_last_rest_end_time_midnight(u, rests) == StartOfDay(now)

_get_last_rest_end_time(u, rests) ==
    IF u \in DOMAIN rests THEN RestEnd(rests[u]) ELSE StartOfDay(now)

_get_rest_remaining_seconds(u, rests) ==
    IF ~_is_user_in_rest(u, rests) THEN 0
    ELSE LET remaining == (RestEnd(rests[u]) - now) \div TicksPerSec
         IN  IF remaining > 0 THEN remaining ELSE 0

\* _calculate_block_usage without the early return for a user in rest
_calculate_block_usage_in_rest(u, log, rests, running, start_time, kid) ==
    SumBlock(log, Today, StartOfDay(now)) + LiveSeconds(u, running, start_time, kid)

_calculate_block_usage(u, log, rests, running, start_time, kid) ==
    IF _is_user_in_rest(u, rests) THEN 0
    ELSE SumBlock(log, Today, _get_last_rest_end_time(u, rests))
           + LiveSeconds(u, running, start_time, kid)

\* _start_rest_period that writes nothing
_start_rest_period_dropped(rests, u, duration_minutes) == rests

\* _start_rest_period
_start_rest_period(rests, u, duration_minutes) ==
    [v \in DOMAIN rests \cup {u} |->
        IF v = u THEN [start_time |-> now, duration_minutes |-> duration_minutes]
        ELSE rests[v]]

\* del self.kid_rest_periods[user_id]
DelRest(rests, u) == [v \in DOMAIN rests \ {u} |-> rests[v]]

\* -------------------------------------------------------------- the limits
\* _check_daily_limit as a function of the state it reads: the events it
\* raises and the daily flags it leaves
DailyLimitReached(usage, daily_limit) == usage >= daily_limit

\* DailyCheck that raises nothing for a user who has a RestState
DailyCheckUnlessRest(u, log, running, start_time, kid) ==
    LET doc == users_db[u]
        usage == _calculate_daily_usage(u, log, running, start_time, kid)
        today_key == DailyKey(u, Today)
        nothing == [evs |-> {}, flags |-> daily_limit_notifications]
    IN  IF ~Has(doc, "max_daily_minutes") \/ u \in DOMAIN kid_rest_periods THEN nothing
        ELSE IF today_key \in daily_limit_notifications THEN nothing
        ELSE IF usage >= doc.max_daily_minutes
        THEN [evs |-> {Event("daily", u, doc.max_daily_minutes, usage, 0)},
              flags |-> _cleanup_old_notifications(daily_limit_notifications \cup {today_key}, Today)]
        ELSE nothing

DailyCheck(u, log, running, start_time, kid) ==
    LET doc == users_db[u]
        usage == _calculate_daily_usage(u, log, running, start_time, kid)
        today_key == DailyKey(u, Today)
        nothing == [evs |-> {}, flags |-> daily_limit_notifications]
    IN  IF ~Has(doc, "max_daily_minutes") THEN nothing
        ELSE IF today_key \in daily_limit_notifications THEN nothing
        ELSE IF DailyLimitReached(usage, doc.max_daily_minutes)
        THEN [evs |-> {Event("daily", u, doc.max_daily_minutes, usage, 0)},
              flags |-> _cleanup_old_notifications(daily_limit_notifications \cup {today_key}, Today)]
        ELSE nothing


\* _check_daily_limit(user_id, username)
_check_daily_limit(u) ==
    LET r == DailyCheck(u, sessions[u], kid_timer_running, kid_timer_start_time, current_kid_user)
    IN  /\ daily_limit_notifications' = r.flags
        /\ Record(Op("check_daily", u, IF r.evs = {} THEN "none" ELSE "raised", {}), r.evs)
        /\ UNCHANGED << now, users_db, sessions, appVars, block_limit_notifications,
                        kid_rest_periods, lunch_confirmed_today, started >>

\* BlockLimitReached with a strict comparison
BlockLimitExceeded(usage, block_limit) == usage > block_limit * SecPerMin

BlockLimitReached(usage, block_limit) == usage >= block_limit * SecPerMin

\* BlockNotified that heeds today's flag only while the user rests
BlockNotifiedInRest(u, flags) ==
    BlockKey(u, Today) \in flags /\ _is_user_in_rest(u, kid_rest_periods)

\* "if today_key in self.block_limit_notifications: return"
BlockNotified(u, flags) == BlockKey(u, Today) \in flags

\* _check_block_limit(user_id, username)
_check_block_limit(u) ==
    LET doc == users_db[u]
        enforce_rest == Get(doc, "enforce_rest", TRUE)
        usage == _calculate_block_usage(u, sessions[u], kid_rest_periods, kid_timer_running,
                                        kid_timer_start_time, current_kid_user)
        today_key == BlockKey(u, Today)
        rest_duration == Get(doc, "rest_duration_minutes", DefaultRestMinutes)
        fires == /\ Has(doc, "max_session_minutes")
                 /\ enforce_rest
                 /\ ~BlockNotified(u, block_limit_notifications)
                 /\ BlockLimitReached(usage, doc.max_session_minutes)
    IN  /\ IF fires
           THEN /\ kid_rest_periods' = _start_rest_period(kid_rest_periods, u, rest_duration)
                /\ block_limit_notifications' = block_limit_notifications \cup {today_key}
                /\ Record(Op("check_block", u, "raised", {}),
                          {Event("block", u, doc.max_session_minutes, usage \div SecPerMin, rest_duration)})
           ELSE /\ UNCHANGED << kid_rest_periods, block_limit_notifications >>
                /\ Record(Op("check_block", u, "none", {}), {})
        /\ UNCHANGED << now, users_db, sessions, appVars, daily_limit_notifications,
                        lunch_confirmed_today, started >>

\* _check_rest_period_end(user_id, username)
_check_rest_period_end(u) ==
    LET ended == /\ _is_user_in_rest(u, kid_rest_periods)
                 /\ _get_rest_remaining_seconds(u, kid_rest_periods) <= 0
    IN  /\ IF ended
           THEN /\ kid_rest_periods' = DelRest(kid_rest_periods, u)
                /\ Record(Op("check_rest_end", u, "raised", {}), {Event("rest_ended", u, 0, 0, 0)})
           ELSE /\ UNCHANGED kid_rest_periods
                /\ Record(Op("check_rest_end", u, "none", {}), {})
        /\ UNCHANGED << now, users_db, sessions, appVars, daily_limit_notifications,
                        block_limit_notifications, lunch_confirmed_today, started >>

\* ---------------------------------------------------------------- the gates
\* InWindow with the end bound excluded
InWindowOpenEnd(start, end, t) ==
    IF start <= end THEN start <= t /\ t < end
    ELSE t >= start \/ t < end

\* in_range of the allowed-hours block, overnight ranges included
InWindow(start, end, t) ==
    IF start <= end THEN start <= t /\ t <= end
    ELSE t >= start \/ t <= end

\* LunchWindow that treats unparsable lunch times as lunch time
LunchWindowFailClosed(doc, t) ==
    LET ls == Get(doc, "lunch_start_time", <<12, 0>>)
        le == Get(doc, "lunch_end_time", <<13, 0>>)
    IN  IF ~(ValidHM(ls) /\ ValidHM(le)) THEN "in"
        ELSE IF ParseHM(ls) <= t /\ t <= ParseHM(le) THEN "in"
        ELSE "out"

\* the try block and the window test of _is_lunch_routine_required at the
\* time of day t: "invalid" (ValueError), "in" or "out"
LunchWindow(doc, t) ==
    LET ls == Get(doc, "lunch_start_time", <<12, 0>>)
        le == Get(doc, "lunch_end_time", <<13, 0>>)
    IN  IF ~(ValidHM(ls) /\ ValidHM(le)) THEN "invalid"
        ELSE IF ParseHM(ls) <= t /\ t <= ParseHM(le) THEN "in"
        ELSE "out"

\* LunchConfirmedToday that never finds a confirmation
LunchConfirmedNever(confirmed, u, today) == FALSE

\* LunchConfirmedToday that accepts a confirmation of any day
LunchConfirmedAnyDay(confirmed, u, today) == u \in DOMAIN confirmed

\* self.lunch_confirmed_today.get(user_id) == today
LunchConfirmedToday(confirmed, u, today) == u \in DOMAIN confirmed /\ confirmed[u] = today

\* ConfirmLunch that records nothing
ConfirmLunchNever(confirmed, u, today) == confirmed

\* ConfirmLunch that records the confirmation for every user
ConfirmLunchAll(confirmed, u, today) == [v \in Users |-> today]

\* self.lunch_confirmed_today[user_id] = today
ConfirmLunch(confirmed, u, today) ==
    [v \in DOMAIN confirmed \cup {u} |-> IF v = u THEN today ELSE confirmed[v]]

\* _is_lunch_routine_required that goes on to the teeth question after lunch=no
_is_lunch_routine_required_teeth_always(u, lunch_yes, teeth_yes) ==
    LET doc == users_db[u]
        skip == [required |-> FALSE, asked |-> {}, confirmed |-> lunch_confirmed_today]
    IN  IF ~Get(doc, "enforce_lunch_routine", FALSE) THEN skip
        ELSE IF LunchWindow(doc, TimeOf(now)) # "in" THEN skip
        ELSE IF LunchConfirmedToday(lunch_confirmed_today, u, Today)
        THEN [required |-> ~teeth_yes, asked |-> {<<"teeth", teeth_yes>>},
              confirmed |-> lunch_confirmed_today]
        ELSE [required |-> ~teeth_yes, asked |-> {<<"lunch", lunch_yes>>, <<"teeth", teeth_yes>>},
              confirmed |-> IF lunch_yes THEN ConfirmLunch(lunch_confirmed_today, u, Today)
                            ELSE lunch_confirmed_today]

\* _is_lunch_routine_required for the kid u, given the answers the prompts
\* would get: whether the start is refused, the prompts shown with their
\* answers, and the confirmations it leaves
_is_lunch_routine_required(u, lunch_yes, teeth_yes) ==
    LET doc == users_db[u]
        skip == [required |-> FALSE, asked |-> {}, confirmed |-> lunch_confirmed_today]
    IN  IF ~Get(doc, "enforce_lunch_routine", FALSE) THEN skip
        ELSE IF LunchWindow(doc, TimeOf(now)) # "in" THEN skip
        ELSE IF LunchConfirmedToday(lunch_confirmed_today, u, Today)
        THEN [required |-> ~teeth_yes, asked |-> {<<"teeth", teeth_yes>>},
              confirmed |-> lunch_confirmed_today]
        ELSE IF ~lunch_yes
        THEN [required |-> FALSE, asked |-> {<<"lunch", FALSE>>}, confirmed |-> lunch_confirmed_today]
        ELSE [required |-> ~teeth_yes, asked |-> {<<"lunch", TRUE>>, <<"teeth", teeth_yes>>},
              confirmed |-> ConfirmLunch(lunch_confirmed_today, u, Today)]

\* AllowedHours that skips the gate when a bound is not configured
AllowedHoursIfConfigured(u) ==
    LET doc == users_db[u]
    IN  IF ~(Has(doc, "allowed_start_time") /\ Has(doc, "allowed_end_time")) THEN "ok"
        ELSE IF ~(ValidHM(doc.allowed_start_time) /\ ValidHM(doc.allowed_end_time)) THEN "invalid"
        ELSE IF InWindow(ParseHM(doc.allowed_start_time), ParseHM(doc.allowed_end_time), TimeOf(now))
        THEN "ok"
        ELSE "outside"

\* the allowed-hours block of start_stop_timer: "ok", "outside" or "invalid"
AllowedHours(u) ==
    LET doc == users_db[u]
        allowed_start == Get(doc, "allowed_start_time", <<15, 0>>)
        allowed_end == Get(doc, "allowed_end_time", <<18, 0>>)
    IN  IF ~(ValidHM(allowed_start) /\ ValidHM(allowed_end)) THEN "invalid"
        ELSE IF InWindow(ParseHM(allowed_start), ParseHM(allowed_end), TimeOf(now)) THEN "ok"
        ELSE "outside"


\* ------------------------------------------------------- start_stop_timer
\* TimerIdle that lets the start branch run in any state
TimerIdleAlways == TRUE

\* "if not self.kid_timer_running": the test that selects the start branch
TimerIdle == ~kid_timer_running

\* the branch taken when the timer is not running (the bound on the sessions
\* started applies to the starts made from the idle state)
StartSession(lunch_yes, teeth_yes) ==
    LET u == current_kid_user
        routine == _is_lunch_routine_required(u, lunch_yes, teeth_yes)
        hours == AllowedHours(u)
    IN  /\ current_view = ROLE_KID
        /\ u # NoUser
        /\ TimerIdle
        /\ (kid_timer_running \/ started < MaxSessions)
        /\ lunch_confirmed_today' = routine.confirmed
        /\ IF routine.required
           THEN /\ Record(Op("start", u, "routine_required", routine.asked), {})
                /\ UNCHANGED << kid_timer_running, kid_timer_start_time, kid_timer_job,
                                orphan_jobs, started >>
           ELSE IF hours # "ok"
           THEN /\ Record(Op("start", u, hours, routine.asked), {})
                /\ UNCHANGED << kid_timer_running, kid_timer_start_time, kid_timer_job,
                                orphan_jobs, started >>
           ELSE /\ kid_timer_running' = TRUE
                /\ kid_timer_start_time' = now
                \* self._update_kid_timer(): the first tick is scheduled
                /\ kid_timer_job' = "live"
                /\ orphan_jobs' = IF kid_timer_job = "live" THEN orphan_jobs + 1 ELSE orphan_jobs
                /\ started' = started + 1
                /\ Record(Op("start", u, "started", routine.asked), {})
        /\ UNCHANGED << now, users_db, sessions, current_view, current_kid_user, limitVars >>

\* ArrayUnion([session_log]) on the 'sessions' array
ArrayUnion(log, entry) ==
    IF \E i \in 1 .. Len(log) : log[i] = entry THEN log ELSE Append(log, entry)

\* RunningAfterStop that leaves the timer running when the save failed
RunningAfterStopIfSaved(ok) == ~ok

\* RunningAfterStop that clears the flag only at the end of the branch
RunningAfterStopLate(ok) == TRUE

\* "self.kid_timer_running = False", the first statement of the stop branch,
\* made before add_session_log_to_user is called and whatever it returns
RunningAfterStop(ok) == FALSE

\* the branch taken when the timer is running; ok: add_session_log_to_user succeeded
StopSession(ok) ==
    LET u == current_kid_user
        session_entry == [start |-> FormatDateTime(kid_timer_start_time),
                          stop |-> FormatDateTime(now),
                          duration |-> _format_duration(now - kid_timer_start_time)]
        log == IF ok THEN ArrayUnion(sessions[u], session_entry) ELSE sessions[u]
        r == DailyCheck(u, log, RunningAfterStop(ok), kid_timer_start_time, u)
    IN  /\ current_view = ROLE_KID
        /\ u # NoUser
        /\ kid_timer_running
        /\ kid_timer_start_time # None
        /\ kid_timer_running' = RunningAfterStop(ok)
        /\ kid_timer_job' = "none"
        /\ sessions' = [sessions EXCEPT ![u] = log]
        /\ daily_limit_notifications' = r.flags
        /\ kid_timer_start_time' = None
        /\ Record(Op("stop", u, IF ok THEN "saved" ELSE "save_failed", {}), r.evs)
        /\ UNCHANGED << now, users_db, current_view, current_kid_user, orphan_jobs,
                        block_limit_notifications, kid_rest_periods, lunch_confirmed_today,
                        started >>

\* _update_kid_timer run by the event loop: a pending callback fires; it
\* schedules the next one only while the timer runs and its label exists
Reschedules == kid_timer_running /\ kid_timer_start_time # None /\ current_view = ROLE_KID

_update_kid_timer ==
    /\ \/ /\ kid_timer_job = "live"
          /\ kid_timer_job' = IF Reschedules THEN "live" ELSE "stale"
          /\ UNCHANGED orphan_jobs
       \/ /\ orphan_jobs > 0
          /\ kid_timer_job' = IF Reschedules THEN "live" ELSE kid_timer_job
          /\ orphan_jobs' = IF Reschedules /\ kid_timer_job = "live"
                            THEN orphan_jobs ELSE orphan_jobs - 1
    /\ Record(Op("tick", current_kid_user, IF Reschedules THEN "rescheduled" ELSE "dropped", {}), {})
    /\ UNCHANGED << now, users_db, sessions, current_view, current_kid_user, kid_timer_running,
                    kid_timer_start_time, limitVars, lunch_confirmed_today, started >>

\* ------------------------------------------------------ the session log
\* Overlaps that only finds ranges with the same start
OverlapsSameStart(start_dt, stop_dt, other_start, other_stop) == start_dt = other_start

\* "Overlap if: (start < other_stop) and (stop > other_start)"
Overlaps(start_dt, stop_dt, other_start, other_stop) ==
    start_dt < other_stop /\ stop_dt > other_start

\* the overlap loop of ManualEntryDialog.save and of edit_selected_log over
\* the entries of log other than the one at index skip (0: none is skipped);
\* an entry whose start or stop does not parse is passed over
OverlapsAny(log, skip, start_dt, stop_dt) ==
    \E i \in 1 .. Len(log) :
        /\ i # skip
        /\ ValidDateTime(log[i].start)
        /\ ValidDateTime(log[i].stop)
        /\ Overlaps(start_dt, stop_dt, ParseDateTime(log[i].start), ParseDateTime(log[i].stop))

\* ManualEntryDialog.save for the kid u with the date, start and stop typed
\* (an entry is added while the array holds fewer than MaxLogLen entries)
ManualEntrySave(u, date, start, stop) ==
    LET typed == {<<"date", date>>, <<"start", start>>, <<"stop", stop>>}
        valid == date \in 0 .. (Len(DateNames) - 1) /\ ValidHM(start) /\ ValidHM(stop)
        start_dt == StartOfDay(At(date, 0, 0, 0, 0)) + ParseHM(start)
        stop_same == StartOfDay(At(date, 0, 0, 0, 0)) + ParseHM(stop)
        stop_dt == IF stop_same < start_dt THEN stop_same + TicksPerDay ELSE stop_same
        entry == [start |-> FormatDateTime(start_dt), stop |-> FormatDateTime(stop_dt),
                  duration |-> _format_duration(stop_dt - start_dt)]
    IN  /\ IF ~valid
           THEN /\ Record(Op("manual", u, "invalid", typed), {})
                /\ UNCHANGED sessions
           ELSE IF start_dt > stop_dt
           THEN /\ Record(Op("manual", u, "range", typed), {})
                /\ UNCHANGED sessions
           ELSE IF OverlapsAny(sessions[u], 0, start_dt, stop_dt)
           THEN /\ Record(Op("manual", u, "overlap", typed), {})
                /\ UNCHANGED sessions
           ELSE /\ Len(sessions[u]) < MaxLogLen
                /\ sessions' = [sessions EXCEPT ![u] = Append(sessions[u], entry)]
                /\ Record(Op("manual", u, "saved", typed), {})
        /\ UNCHANGED << now, users_db, appVars, limitVars, lunch_confirmed_today, started >>

\* edit_selected_log for the entry session_idx of the kid u, with the three
\* strings typed into the prompts
edit_selected_log(u, session_idx, new_start, new_stop, new_duration) ==
    LET typed == {<<"index", session_idx>>, <<"start", new_start>>, <<"stop", new_stop>>,
                  <<"duration", new_duration>>}
        entry == [start |-> new_start, stop |-> new_stop, duration |-> new_duration]
    IN  /\ session_idx \in 1 .. Len(sessions[u])
        /\ IF ~(ValidDateTime(new_start) /\ ValidDateTime(new_stop))
           THEN /\ Record(Op("edit", u, "invalid", typed), {})
                /\ UNCHANGED sessions
           ELSE IF ParseDateTime(new_start) > ParseDateTime(new_stop)
           THEN /\ Record(Op("edit", u, "range", typed), {})
                /\ UNCHANGED sessions
           ELSE IF OverlapsAny(sessions[u], session_idx, ParseDateTime(new_start), ParseDateTime(new_stop))
           THEN /\ Record(Op("edit", u, "overlap", typed), {})
                /\ UNCHANGED sessions
           ELSE /\ sessions' = [sessions EXCEPT ![u][session_idx] = entry]
                /\ Record(Op("edit", u, "saved", typed), {})
        /\ UNCHANGED << now, users_db, appVars, limitVars, lunch_confirmed_today, started >>

\* del sessions[session_idx]
DelEntry(log, session_idx) ==
    [i \in 1 .. (Len(log) - 1) |-> IF i < session_idx THEN log[i] ELSE log[i + 1]]

\* delete_selected_log for the entry session_idx of the kid u, confirmed
delete_selected_log(u, session_idx) ==
    /\ session_idx \in 1 .. Len(sessions[u])
    /\ sessions' = [sessions EXCEPT ![u] = DelEntry(sessions[u], session_idx)]
    /\ Record(Op("delete", u, "done", {<<"index", session_idx>>}), {})
    /\ UNCHANGED << now, users_db, appVars, limitVars, lunch_confirmed_today, started >>

\* delete_all_entries for the kid u, confirmed
delete_all_entries(u) ==
    /\ sessions' = [sessions EXCEPT ![u] = << >>]
    /\ Record(Op("delete_all", u, "done", {}), {})
    /\ UNCHANGED << now, users_db, appVars, limitVars, lunch_confirmed_today, started >>

\* ----------------------------------------------------------- view switches
\* _on_kid_selected(kid_user), with the kid branch of _update_ui_for_view
_on_kid_selected(u) ==
    /\ current_view' = ROLE_KID
    /\ current_kid_user' = u
    /\ kid_timer_running' = FALSE
    /\ kid_timer_start_time' = None
    /\ kid_timer_job' = "none"
    /\ orphan_jobs' = IF kid_timer_job = "live" THEN orphan_jobs + 1 ELSE orphan_jobs
    /\ Record(Op("select_kid", u, "done", {}), {})
    /\ UNCHANGED << now, users_db, sessions, limitVars, lunch_confirmed_today, started >>

\* switch_to_parent_view: the parent branch leaves the timer fields alone
switch_to_parent_view ==
    /\ current_view = ROLE_KID
    /\ current_view' = ROLE_PARENT
    /\ current_kid_user' = NoUser
    /\ Record(Op("parent_view", NoUser, "done", {}), {})
    /\ UNCHANGED << now, users_db, sessions, kid_timer_running, kid_timer_start_time,
                    kid_timer_job, orphan_jobs, limitVars, lunch_confirmed_today, started >>

\* ------------------------------------------------------------------ clock
\* the wall clock moves on to a later reading of the set I
Advance(I) ==
    /\ \E t \in I : t > now /\ now' = t
    /\ Record(Op("clock", NoUser, "done", {}), {})
    /\ UNCHANGED << users_db, sessions, appVars, limitVars, lunch_confirmed_today, started >>


\* ------------------------------------------------------- user documents
\* a kid as the user form saves it: every budget and gate field present
KidStd ==
    [role |-> ROLE_KID, max_session_minutes |-> 1, max_daily_minutes |-> 1, rest_minutes |-> 1,
     lunch_start_time |-> <<12, 0>>, lunch_end_time |-> <<13, 0>>,
     allowed_start_time |-> <<0, 0>>, allowed_end_time |-> <<23, 59>>,
     enforce_lunch_routine |-> FALSE]

\* a kid document with no budget and no gate field
KidUnlimited == [role |-> ROLE_KID]

\* a kid with a two-minute daily budget only
KidDaily == [role |-> ROLE_KID, max_daily_minutes |-> 2]

\* a kid with a one-minute block budget only, allowed to play all day
KidBlock ==
    [role |-> ROLE_KID, max_session_minutes |-> 1,
     allowed_start_time |-> <<0, 0>>, allowed_end_time |-> <<23, 59>>]

\* a kid whose document switches the rest off
KidNoRest == [role |-> ROLE_KID, max_session_minutes |-> 1, enforce_rest |-> FALSE]

\* ------------------------------------------------------------------- Init
\* the application after construction, in the parent view, over the user
\* documents docs, at the clock reading t0 (the session arrays are set by
\* each specification)
InitApp(docs, t0) ==
    /\ now = t0
    /\ users_db = docs
    /\ current_view = ROLE_PARENT
    /\ current_kid_user = NoUser
    /\ kid_timer_running = FALSE
    /\ kid_timer_start_time = None
    /\ kid_timer_job = "none"
    /\ orphan_jobs = 0
    /\ daily_limit_notifications = {}
    /\ block_limit_notifications = {}
    /\ kid_rest_periods = << >>
    /\ lunch_confirmed_today = << >>
    /\ started = 0
    /\ last = Op("init", NoUser, "done", {})
    /\ events = {}
    /\ raised = [k \in Kinds \X Users \X (0 .. MaxDay) |-> 0]
    /\ rest_over = [u \in Users |-> None]

\* selecting a kid of U and pressing the Start/Stop button; P: the outcomes
\* add_session_log_to_user may have
SessionOperations(U, P) ==
    \/ \E u \in U : _on_kid_selected(u)
    \/ \E lunch_yes, teeth_yes \in BOOLEAN : StartSession(lunch_yes, teeth_yes)
    \/ \E ok \in P : StopSession(ok)

\* the operations of the engine
Operations(P) ==
    \/ SessionOperations(Users, P)
    \/ switch_to_parent_view
    \/ _update_kid_timer
    \/ \E u \in Users : _check_daily_limit(u)
    \/ \E u \in Users : _check_block_limit(u)
    \/ \E u \in Users : _check_rest_period_end(u)

\* ------------------------------------------------- the budgets, day by day
\* clock readings: one second and one minute into a session on day 0, then
\* the same afternoon hour of the following days
LimitInstants ==
    { At(0, 15, 0, 0, 0), At(0, 15, 0, 1, 0), At(0, 15, 1, 0, 0) }
    \cup { At(d, 15, 0, 0, 0) : d \in 1 .. MaxDay }

\* an interval persisted before the application was started
Persisted(start, stop) ==
    [start |-> FormatDateTime(start), stop |-> FormatDateTime(stop),
     duration |-> _format_duration(stop - start)]

\* UserA has a one-minute daily and block budget; UserB either has no budget
\* at all or a two-minute daily budget it has already used up today
Init ==
    \E docB \in {KidUnlimited, KidDaily} :
        /\ InitApp([u \in Users |-> IF u = UserA THEN KidStd ELSE docB], At(0, 15, 0, 0, 0))
        /\ sessions = [u \in Users |->
                         IF u = UserB /\ docB = KidDaily
                         THEN << Persisted(At(0, 14, 0, 0, 0), At(0, 14, 2, 0, 0)) >>
                         ELSE << >>]

Next == Advance(LimitInstants) \/ Operations({TRUE})

Spec == Init /\ [][Next]_vars


\* ------------------------------------------------- the rest after a breach
\* clock readings: a one-minute session from 15:00:00, the last tick before
\* and the instant of the end of the 60-minute rest it brings, later days
RestInstants ==
    { At(0, 15, 0, 0, 0), At(0, 15, 1, 0, 0),
      At(0, 16, 0, 59, TicksPerSec - 1), At(0, 16, 1, 0, 0) }
    \cup { At(d, 15, 0, 0, 0) : d \in 1 .. MaxDay }

\* UserA has a one-minute block budget and either nothing played today or a
\* persisted one-minute interval of this afternoon; UserB has no rest
InitRest ==
    \E logA \in { << >>, << Persisted(At(0, 14, 0, 0, 0), At(0, 14, 1, 0, 0)) >> } :
        /\ InitApp([u \in Users |-> IF u = UserA THEN KidBlock ELSE KidNoRest], At(0, 15, 0, 0, 0))
        /\ sessions = [u \in Users |-> IF u = UserA THEN logA ELSE << >>]

NextRest == Advance(RestInstants) \/ Operations({TRUE})

SpecRest == InitRest /\ [][NextRest]_vars

\* ------------------------------------------------------ the allowed hours
\* kid documents that differ in their allowed-hours fields only
KidOvernight == [role |-> ROLE_KID, allowed_start_time |-> <<22, 0>>, allowed_end_time |-> <<6, 0>>]
KidMorning == [role |-> ROLE_KID, allowed_start_time |-> <<6, 0>>, allowed_end_time |-> <<12, 0>>]
KidBadStart == [role |-> ROLE_KID, allowed_start_time |-> <<25, 0>>, allowed_end_time |-> <<23, 59>>]
KidBadEnd == [role |-> ROLE_KID, allowed_start_time |-> <<0, 0>>, allowed_end_time |-> <<18>>]
KidOnlyBadStart == [role |-> ROLE_KID, allowed_start_time |-> <<12, 60>>]

GateDocs == {KidOvernight, KidMorning, KidUnlimited, KidBadStart, KidBadEnd, KidOnlyBadStart}

\* clock readings: 06:00 exactly and one tick later, noon, 15:00, 18:00
\* exactly and one tick later, late evening, and 06:00 of the following days
GateInstants ==
    { At(0, 6, 0, 0, 0), At(0, 6, 0, 0, 1), At(0, 12, 0, 0, 0), At(0, 15, 0, 0, 0),
      At(0, 18, 0, 0, 0), At(0, 18, 0, 0, 1), At(0, 23, 30, 0, 0) }
    \cup { At(d, 6, 0, 0, 0) : d \in 1 .. MaxDay }

InitGate ==
    \E docA \in GateDocs :
        /\ InitApp([u \in Users |-> IF u = UserA THEN docA ELSE KidUnlimited], At(0, 6, 0, 0, 0))
        /\ sessions = [u \in Users |-> << >>]

NextGate == Advance(GateInstants) \/ Operations({TRUE})

SpecGate == InitGate /\ [][NextGate]_vars

\* ------------------------------------------------- the lunch/teeth routine
\* kids with the lunch routine enforced: allowed to play all day, allowed in
\* the default afternoon window only, and with an unparsable lunch bound
KidLunch ==
    [role |-> ROLE_KID, enforce_lunch_routine |-> TRUE,
     lunch_start_time |-> <<12, 0>>, lunch_end_time |-> <<13, 0>>,
     allowed_start_time |-> <<0, 0>>, allowed_end_time |-> <<23, 59>>]
KidLunchAfternoon ==
    [role |-> ROLE_KID, enforce_lunch_routine |-> TRUE,
     lunch_start_time |-> <<12, 0>>, lunch_end_time |-> <<13, 0>>]
KidBadLunchStart ==
    [role |-> ROLE_KID, enforce_lunch_routine |-> TRUE,
     lunch_start_time |-> <<12, 60>>, lunch_end_time |-> <<13, 0>>,
     allowed_start_time |-> <<0, 0>>, allowed_end_time |-> <<23, 59>>]
KidBadLunchEnd ==
    [role |-> ROLE_KID, enforce_lunch_routine |-> TRUE,
     lunch_start_time |-> <<12, 0>>, lunch_end_time |-> <<13>>,
     allowed_start_time |-> <<0, 0>>, allowed_end_time |-> <<23, 59>>]

LunchDocs == {KidLunch, KidLunchAfternoon, KidBadLunchStart, KidBadLunchEnd}

\* clock readings: 12:00 exactly, 12:30, 12:45, 13:00 exactly and one tick
\* later, and 12:30 of the following days
LunchInstants ==
    { At(0, 12, 0, 0, 0), At(0, 12, 30, 0, 0), At(0, 12, 45, 0, 0),
      At(0, 13, 0, 0, 0), At(0, 13, 0, 0, 1) }
    \cup { At(d, 12, 30, 0, 0) : d \in 1 .. MaxDay }

InitLunch ==
    \E docA \in LunchDocs :
        /\ InitApp([u \in Users |-> IF u = UserA THEN docA ELSE KidUnlimited], At(0, 12, 0, 0, 0))
        /\ sessions = [u \in Users |-> << >>]

NextLunch == Advance(LunchInstants) \/ Operations({TRUE})

SpecLunch == InitLunch /\ [][NextLunch]_vars

\* ------------------------------------------------------- the usage totals
\* session arrays as the database may hold them: an interval whose duration
\* was edited to five minutes, an interval that spans midnight, and an
\* interval of the next day
EditedInterval ==
    [Persisted(At(0, 14, 0, 0, 0), At(0, 14, 1, 0, 0)) EXCEPT !.duration = <<0, 5, 0>>]

UsageLogs ==
    { << >>,
      << EditedInterval >>,
      << Persisted(At(0, 14, 0, 0, 0), At(0, 14, 1, 0, 0)),
         Persisted(At(0, 23, 59, 30, 0), At(1, 0, 0, 30, 0)) >>,
      << Persisted(At(0, 23, 59, 30, 0), At(1, 0, 0, 30, 0)),
         Persisted(At(1, 10, 0, 0, 0), At(1, 10, 0, 30, 0)) >> }

\* clock readings: 15:00:00, a second and one tick later, and 15:00 of the
\* following days
UsageInstants ==
    { At(0, 15, 0, 0, 0), At(0, 15, 0, 1, 1) } \cup { At(d, 15, 0, 0, 0) : d \in 1 .. MaxDay }

InitUsage ==
    \E logA \in UsageLogs :
        /\ InitApp([u \in Users |-> IF u = UserA THEN KidDaily ELSE KidUnlimited], At(0, 15, 0, 0, 0))
        /\ sessions = [u \in Users |-> IF u = UserA THEN logA ELSE << >>]

NextUsage == Advance(UsageInstants) \/ Operations({TRUE})

SpecUsage == InitUsage /\ [][NextUsage]_vars

\* ----------------------------------------------- the parent's log editing
\* what the parent types: times of day for a manual entry (one of them not a
\* time), time stamps and a duration for an edit
ManualTimes == { <<15, 0>>, <<15, 1>>, <<15, 60>> }
EditStamps == { <<0, 15, 0, 0>>, <<0, 15, 1, 0>> }
EditDurations == { <<0, 5, 0>> }

\* the operations of the session log table, on UserA's log
LogOperations ==
    \/ \E start, stop \in ManualTimes : ManualEntrySave(UserA, Today, start, stop)
    \/ \E i \in 1 .. (MaxLogLen + MaxSessions) : \E new_start, new_stop \in EditStamps :
         \E new_duration \in EditDurations :
            edit_selected_log(UserA, i, new_start, new_stop, new_duration)
    \/ \E i \in 1 .. (MaxLogLen + MaxSessions) : delete_selected_log(UserA, i)
    \/ delete_all_entries(UserA)

\* clock readings: one tick after 15:00:00, and 15:00:01 (the kid selected
\* in this specification is UserA, whose log is edited)
LogInstants == { At(0, 15, 0, 0, 1), At(0, 15, 0, 1, 0) }

InitLog ==
    /\ InitApp([u \in Users |-> KidUnlimited], At(0, 15, 0, 0, 1))
    /\ sessions = [u \in Users |-> << >>]

NextLog == Advance(LogInstants) \/ SessionOperations({UserA}, {TRUE, FALSE}) \/ LogOperations

SpecLog == InitLog /\ [][NextLog]_vars

\* --------------------------------------------- a user id with an underscore
\* a user document whose id is "k_1": the id is the key of the document in
\* the users collection and goes unchanged into the notification keys
UserK1 == << "k", "_", "1" >>

IdUsers == {UserA, UserK1}

\* clock readings: 15:00:00 and the three seconds after it
IdInstants == { At(0, 15, 0, s, 0) : s \in 0 .. 3 }

\* UserA and the user "k_1" have a two-minute daily budget only, UserB has
\* none; nothing is persisted
InitIds ==
    /\ InitApp([u \in Users \cup {UserK1} |-> IF u \in IdUsers THEN KidDaily ELSE KidUnlimited],
               At(0, 15, 0, 0, 0))
    /\ sessions = [u \in Users \cup {UserK1} |-> << >>]

NextIds ==
    \/ Advance(IdInstants)
    \/ SessionOperations(IdUsers, {TRUE})
    \/ \E u \in IdUsers : _check_daily_limit(u)

SpecIds == InitIds /\ [][NextIds]_vars

\* ------------------------------------------ a breach followed to its end
\* clock readings: a one-minute session from 15:00:00, the last tick before
\* and the instant of the end of the 60-minute rest its breach brings
OrderInstants ==
    { At(0, 15, 0, 0, 0), At(0, 15, 1, 0, 0),
      At(0, 16, 0, 59, TicksPerSec - 1), At(0, 16, 1, 0, 0) }

\* UserA has a one-minute daily and block budget, UserB has none; nothing is
\* persisted, and add_session_log_to_user may fail
InitOrder ==
    /\ InitApp([u \in Users |-> IF u = UserA THEN KidStd ELSE KidUnlimited], At(0, 15, 0, 0, 0))
    /\ sessions = [u \in Users |-> << >>]

NextOrder == Advance(OrderInstants) \/ Operations({TRUE, FALSE})

SpecOrder == InitOrder /\ [][NextOrder]_vars

\* --------------------------------------------------- two kids, three days
\* a kid with a one-minute daily and block budget whose lunch routine is
\* enforced in the afternoon
KidCross ==
    [role |-> ROLE_KID, max_session_minutes |-> 1, max_daily_minutes |-> 1,
     enforce_lunch_routine |-> TRUE,
     lunch_start_time |-> <<15, 0>>, lunch_end_time |-> <<16, 0>>,
     allowed_start_time |-> <<0, 0>>, allowed_end_time |-> <<23, 59>>]

\* clock readings: 15:00 and 15:01 of day 0, and 15:00 of the day after the
\* last day of the other specifications, when the flags of day 0 are more
\* than one day old
CrossInstants ==
    { At(0, 15, 0, 0, 0), At(0, 15, 1, 0, 0), At(MaxDay + 1, 15, 0, 0, 0) }

\* UserA is such a kid; UserB has a two-minute daily budget it has already
\* used up today
InitCross ==
    /\ InitApp([u \in Users |-> IF u = UserA THEN KidCross ELSE KidDaily], At(0, 15, 0, 0, 0))
    /\ sessions = [u \in Users |->
                     IF u = UserB THEN << Persisted(At(0, 14, 0, 0, 0), At(0, 14, 2, 0, 0)) >>
                     ELSE << >>]

NextCross == Advance(CrossInstants) \/ Operations({TRUE})

SpecCross == InitCross /\ [][NextCross]_vars

\* ------------------------------------------------- malformed log records
\* records of the users collection written by other hands: a start without
\* seconds, a start with hour 25, a duration of two parts
NoSecondsStart ==
    [start |-> <<0, 14, 0>>, stop |-> <<0, 14, 1, 0>>, duration |-> <<0, 1, 0>>]
BadHourStart ==
    [start |-> <<0, 25, 0, 0>>, stop |-> <<0, 14, 1, 0>>, duration |-> <<0, 1, 0>>]
ShortDuration ==
    [start |-> <<0, 14, 0, 0>>, stop |-> <<0, 14, 1, 0>>, duration |-> <<1, 0>>]

\* logs that hold one such record next to a well-formed minute of today
MalformedLogs ==
    { << r, Persisted(At(0, 14, 10, 0, 0), At(0, 14, 11, 0, 0)) >> :
        r \in {NoSecondsStart, BadHourStart, ShortDuration} }
    \cup { << Persisted(At(0, 14, 10, 0, 0), At(0, 14, 11, 0, 0)), ShortDuration >> }

\* clock readings: 15:00:00, one second and one minute later
MalformedInstants == { At(0, 15, 0, 0, 0), At(0, 15, 0, 1, 0), At(0, 15, 1, 0, 0) }

\* UserA, with a one-minute daily and block budget, has such a log
InitMalformed ==
    \E logA \in MalformedLogs :
        /\ InitApp([u \in Users |-> IF u = UserA THEN KidStd ELSE KidUnlimited], At(0, 15, 0, 0, 0))
        /\ sessions = [u \in Users |-> IF u = UserA THEN logA ELSE << >>]

NextMalformed == Advance(MalformedInstants) \/ Operations({TRUE})

SpecMalformed == InitMalformed /\ [][NextMalformed]_vars

\* ================================================================ claims
\* today's usage of u as _check_daily_limit reads it in the current state
DailyUsageNow(u) ==
    _calculate_daily_usage(u, sessions[u], kid_timer_running, kid_timer_start_time, current_kid_user)

BlockUsageNow(u) ==
    _calculate_block_usage(u, sessions[u], kid_rest_periods, kid_timer_running,
                           kid_timer_start_time, current_kid_user)

DailyLimitSeconds(u) == users_db[u].max_daily_minutes * SecPerMin
BlockLimitSeconds(u) == users_db[u].max_session_minutes * SecPerMin

\* C2: checkDailyLimit raises LimitReached(daily) only when today's usage in
\* seconds is at least max_daily_minutes*60; it raises nothing while the usage
\* is below that.
C2_DailyRaisedOnlyAtLimit ==
    \A e \in events : e.kind = "daily" => e.usage >= e.limit * SecPerMin

C4_FlagsScoped ==
    [][ \A u \in Users :
          /\ ( /\ last'.op = "check_daily"
               /\ last'.user = u
               /\ Has(users_db[u], "max_daily_minutes")
               /\ DailyUsageNow(u) >= DailyLimitSeconds(u)
               /\ raised[<<"daily", u, Today>>] = 0 )
             => \E e \in events' : e.kind = "daily" /\ e.user = u
          /\ ( /\ last'.op = "check_block"
               /\ last'.user = u
               /\ Has(users_db[u], "max_session_minutes")
               /\ Get(users_db[u], "enforce_rest", TRUE)
               /\ BlockUsageNow(u) >= BlockLimitSeconds(u)
               /\ raised[<<"block", u, Today>>] = 0 )
             => \E e \in events' : e.kind = "block" /\ e.user = u
      ]_vars

\* LimitReached(block) was just raised for UserA on day 1 although its daily
\* flags of day 0 and of day 1 and UserB's daily flag of day 0 are set
C4_Witness ==
    /\ Today = 1
    /\ last.op = "check_block"
    /\ \E e \in events : e.kind = "block" /\ e.user = UserA
    /\ raised[<<"daily", UserA, 0>>] = 1
    /\ raised[<<"daily", UserA, 1>>] = 1
    /\ raised[<<"daily", UserB, 0>>] = 1
    /\ DailyKey(UserA, 1) \in daily_limit_notifications
    /\ DailyKey(UserB, 0) \in daily_limit_notifications


\* C1: while a user's RestState is active every start attempt for that user
\* is refused: no LiveSession is created and the controller stays Idle.
C1_NoStartWhileResting ==
    (last.op = "start" /\ _is_user_in_rest(last.user, kid_rest_periods))
    => /\ last.result # "started"
       /\ ~kid_timer_running
       /\ kid_timer_start_time = None

\* the conditions of checkBlockLimit for u, read before the call
BlockFlagToday(u) ==
    (<< "block", "_" >> \o u \o << "_", DateStr(Today) >>) \in block_limit_notifications

BlockCheckDue(u) ==
    /\ Has(users_db[u], "max_session_minutes")
    /\ Get(users_db[u], "enforce_rest", TRUE)
    /\ ~BlockFlagToday(u)
    /\ BlockUsageNow(u) >= BlockLimitSeconds(u)

\* C5: a checkBlockLimit call made with max_session_minutes set, enforce_rest
\* true, no block flag for today and the block usage at or over
\* max_session_minutes*60 writes a RestState with start_time = now, raises
\* LimitReached(block) and sets the block flag; a call made with any of these
\* false changes neither the RestState nor the block flags and raises nothing.
C5_BlockCheckEffect ==
    [][ \A u \in Users :
          (last'.op = "check_block" /\ last'.user = u)
          => IF BlockCheckDue(u)
             THEN /\ u \in DOMAIN kid_rest_periods'
                  /\ kid_rest_periods'[u].start_time = now
                  /\ \E e \in events' : e.kind = "block" /\ e.user = u
                  /\ (<< "block", "_" >> \o u \o << "_", DateStr(Today) >>)
                        \in block_limit_notifications'
             ELSE /\ kid_rest_periods' = kid_rest_periods
                  /\ block_limit_notifications' = block_limit_notifications
                  /\ events' = {}
      ]_vars

\* checkBlockLimit has just fired at exactly one minute of block usage
C5_Witness ==
    /\ last.op = "check_block"
    /\ last.user = UserA
    /\ \E e \in events : e.kind = "block" /\ e.usage = 1
    /\ UserA \in DOMAIN kid_rest_periods
    /\ kid_rest_periods[UserA].start_time = now
    /\ BlockFlagToday(UserA)

\* C6: every stop is followed by an evaluation of checkBlockLimit: a stop that
\* brings the usage since the last rest boundary to max_session_minutes*60 or
\* more (enforce_rest true, no block flag today) leaves the user resting with
\* LimitReached(block) raised.
C6_StopStartsRest ==
    [][ \A u \in Users :
          ( /\ last'.op = "stop"
            /\ last'.user = u
            /\ Has(users_db[u], "max_session_minutes")
            /\ Get(users_db[u], "enforce_rest", TRUE)
            /\ ~BlockFlagToday(u)
            /\ _calculate_block_usage(u, sessions'[u], kid_rest_periods, FALSE, None, u)
                  >= BlockLimitSeconds(u) )
          => /\ _is_user_in_rest(u, kid_rest_periods')
             /\ \E e \in events' : e.kind = "block" /\ e.user = u
      ]_vars

\* C7: once the clock has passed the implied end of a RestState, a
\* checkRestEnded call deletes the RestState (and raises RestEnded): after the
\* call no expired RestState of that user is left.
C7_ExpiredRestDeleted ==
    \A u \in Users :
        (last.op = "check_rest_end" /\ last.user = u)
        => ~(u \in DOMAIN kid_rest_periods /\ now >= RestEnd(kid_rest_periods[u]))


\* a configured bound as a time of day, and whether it is a 24-hour HH:MM
WellFormedHM(s) == Len(s) = 2 /\ s[1] >= 0 /\ s[1] <= 23 /\ s[2] >= 0 /\ s[2] <= 59
TimeOfDayHM(h, m) == (h * 60 + m) * 60 * TicksPerSec

InRangeClaim(start, end, t) ==
    \/ (start <= end /\ start <= t /\ t <= end)
    \/ (start > end /\ (t >= start \/ t <= end))

BothConfigured(u) ==
    /\ Has(users_db[u], "allowed_start_time")
    /\ Has(users_db[u], "allowed_end_time")
    /\ WellFormedHM(users_db[u].allowed_start_time)
    /\ WellFormedHM(users_db[u].allowed_end_time)

\* C8: for every configured allowed window (start, end) and every time of day,
\* the allowed-hours gate admits a start iff (start <= end and start <= now <=
\* end) or (start > end and (now >= start or now <= end)), both bounds
\* inclusive; with 22:00-06:00 it admits 23:30 and 06:00 exactly and refuses
\* 12:00; a start refused as out of range creates no LiveSession.
C8_AllowedHoursGate ==
    \A u \in Users :
        (last.op = "start" /\ last.user = u /\ last.result # "routine_required" /\ BothConfigured(u))
        => LET doc == users_db[u]
               start == TimeOfDayHM(doc.allowed_start_time[1], doc.allowed_start_time[2])
               end == TimeOfDayHM(doc.allowed_end_time[1], doc.allowed_end_time[2])
               t == now % (24 * 60 * 60 * TicksPerSec)
           IN  /\ last.result \in {"started", "outside"}
               /\ (last.result = "started") <=> InRangeClaim(start, end, t)
               /\ (last.result = "started") => (kid_timer_running /\ kid_timer_start_time = now)
               /\ (last.result = "outside") => (~kid_timer_running /\ kid_timer_start_time = None)
               /\ (doc.allowed_start_time = <<22, 0>> /\ doc.allowed_end_time = <<6, 0>>)
                  => /\ (t = TimeOfDayHM(23, 30)) => last.result = "started"
                     /\ (t = TimeOfDayHM(6, 0)) => last.result = "started"
                     /\ (t = TimeOfDayHM(12, 0)) => last.result = "outside"

\* a start admitted at 06:00:00 exactly by the window 22:00-06:00
C8_Witness ==
    /\ last.op = "start"
    /\ last.result = "started"
    /\ users_db[last.user] = KidOvernight
    /\ now % (24 * 60 * 60 * TicksPerSec) = TimeOfDayHM(6, 0)
    /\ kid_timer_running

NeitherConfigured(u) ==
    /\ ~Has(users_db[u], "allowed_start_time")
    /\ ~Has(users_db[u], "allowed_end_time")

\* C9 as stated: for a user with neither allowed-hours field set, the
\* allowed-hours gate never refuses a start, at any time of day.
C9_UnconfiguredNeverRefused ==
    \A u \in Users :
        (last.op = "start" /\ last.user = u /\ NeitherConfigured(u))
        => last.result \notin {"outside", "invalid"}

\* C9 amended: for a user with neither allowed-hours field set the gate
\* applies the default window 15:00-18:00, both bounds inclusive: it admits a
\* start iff 15:00 <= now <= 18:00 and refuses it as out of range otherwise.
C9_UnconfiguredDefaultWindow ==
    \A u \in Users :
        (last.op = "start" /\ last.user = u /\ last.result # "routine_required" /\ NeitherConfigured(u))
        => LET t == now % (24 * 60 * 60 * TicksPerSec)
           IN  /\ last.result \in {"started", "outside"}
               /\ (last.result = "started") <=> (TimeOfDayHM(15, 0) <= t /\ t <= TimeOfDayHM(18, 0))

\* a user without allowed-hours fields refused at noon
C9_Witness ==
    /\ last.op = "start"
    /\ NeitherConfigured(last.user)
    /\ last.result = "outside"
    /\ now % (24 * 60 * 60 * TicksPerSec) = TimeOfDayHM(12, 0)

MalformedBound(u) ==
    \/ Has(users_db[u], "allowed_start_time") /\ ~WellFormedHM(users_db[u].allowed_start_time)
    \/ Has(users_db[u], "allowed_end_time") /\ ~WellFormedHM(users_db[u].allowed_end_time)

\* C10: if either allowed-hours bound is present but does not parse as 24-hour
\* HH:MM, every start attempt is refused at any time of day: the controller
\* stays Idle and no LiveSession is created.
C10_MalformedBoundsFailClosed ==
    \A u \in Users :
        MalformedBound(u)
        => /\ ~(kid_timer_running /\ current_kid_user = u)
           /\ (last.op = "start" /\ last.user = u)
              => /\ last.result \in {"invalid", "routine_required"}
                 /\ ~kid_timer_running
                 /\ kid_timer_start_time = None

\* a start refused at 15:00 for a user whose only configured bound is 12:60
C10_Witness ==
    /\ last.op = "start"
    /\ last.result = "invalid"
    /\ users_db[last.user] = KidOnlyBadStart
    /\ now % (24 * 60 * 60 * TicksPerSec) = TimeOfDayHM(15, 0)
    /\ ~kid_timer_running


\* the lunch routine of u as configured: enforced, a bound that is not a
\* 24-hour HH:MM, the clock inside the configured window, lunch confirmed today
LunchEnforced(u) ==
    Has(users_db[u], "enforce_lunch_routine") /\ users_db[u].enforce_lunch_routine

LunchBoundMalformed(u) ==
    \/ Has(users_db[u], "lunch_start_time") /\ ~WellFormedHM(users_db[u].lunch_start_time)
    \/ Has(users_db[u], "lunch_end_time") /\ ~WellFormedHM(users_db[u].lunch_end_time)

InLunchWindowClaim(u) ==
    /\ Has(users_db[u], "lunch_start_time")
    /\ Has(users_db[u], "lunch_end_time")
    /\ WellFormedHM(users_db[u].lunch_start_time)
    /\ WellFormedHM(users_db[u].lunch_end_time)
    /\ LET t == now % (24 * 60 * 60 * TicksPerSec)
       IN  /\ TimeOfDayHM(users_db[u].lunch_start_time[1], users_db[u].lunch_start_time[2]) <= t
           /\ t <= TimeOfDayHM(users_db[u].lunch_end_time[1], users_db[u].lunch_end_time[2])

CalendarDay == now \div (24 * 60 * 60 * TicksPerSec)

ConfirmedTodayClaim(u) ==
    u \in DOMAIN lunch_confirmed_today /\ lunch_confirmed_today[u] = CalendarDay

\* C11: if lunch_start_time or lunch_end_time does not parse as HH:MM, the
\* lunch/teeth routine gate is disabled: a start attempt asks no question,
\* records no LunchConfirmation and is never refused by the routine, even when
\* enforce_lunch_routine is true.
C11_MalformedLunchFailsOpen ==
    [][ \A u \in Users :
          (last'.op = "start" /\ last'.user = u /\ LunchEnforced(u) /\ LunchBoundMalformed(u))
          => /\ last'.asked = {}
             /\ lunch_confirmed_today' = lunch_confirmed_today
             /\ last'.result # "routine_required"
      ]_vars

\* a start at 12:30 of a kid whose lunch start is 12:60: nothing asked, started
C11_Witness ==
    /\ last.op = "start"
    /\ users_db[last.user] = KidBadLunchStart
    /\ now % (24 * 60 * 60 * TicksPerSec) = TimeOfDayHM(12, 30)
    /\ last.asked = {}
    /\ last.result = "started"
    /\ lunch_confirmed_today = << >>

\* C12: inside the lunch window with enforce_lunch_routine true and lunch not
\* yet confirmed today, the lunch question is asked and lunch=yes records
\* LunchConfirmation(user, today) and goes on to the teeth question; lunch=yes
\* with teeth=no refuses the start and leaves the confirmation recorded; an
\* attempt made in the window with the confirmation recorded asks only the
\* teeth question.
C12_LunchYesRecordedBeforeTeeth ==
    [][ \A u \in Users :
          (last'.op = "start" /\ last'.user = u /\ LunchEnforced(u) /\ InLunchWindowClaim(u))
          => /\ ~ConfirmedTodayClaim(u)
                => /\ \E a \in BOOLEAN : <<"lunch", a>> \in last'.asked
                   /\ <<"lunch", TRUE>> \in last'.asked
                      => /\ u \in DOMAIN lunch_confirmed_today'
                         /\ lunch_confirmed_today'[u] = CalendarDay
                         /\ \E a \in BOOLEAN : <<"teeth", a>> \in last'.asked
                   /\ last'.asked = {<<"lunch", TRUE>>, <<"teeth", FALSE>>}
                      => /\ last'.result = "routine_required"
                         /\ ~kid_timer_running'
             /\ ConfirmedTodayClaim(u)
                => last'.asked \in { {<<"teeth", TRUE>>}, {<<"teeth", FALSE>>} }
      ]_vars

\* the retry at 12:45: no session was started so far, the confirmation of an
\* earlier refused attempt is recorded, and only the teeth question was asked
C12_Witness ==
    /\ last.op = "start"
    /\ users_db[last.user] = KidLunch
    /\ now % (24 * 60 * 60 * TicksPerSec) = TimeOfDayHM(12, 45)
    /\ started = 0
    /\ last.asked = {<<"teeth", FALSE>>}
    /\ last.result = "routine_required"
    /\ ConfirmedTodayClaim(last.user)

\* C13: inside the lunch window with enforce_lunch_routine true and lunch
\* already confirmed today for this user, the gate asks only the teeth
\* question: teeth=no refuses the start, teeth=yes hands the attempt to the
\* allowed-hours gate, whose outcome is the outcome of the attempt.
C13_ConfirmedAsksTeethOnly ==
    [][ \A u \in Users :
          ( /\ last'.op = "start"
            /\ last'.user = u
            /\ LunchEnforced(u)
            /\ InLunchWindowClaim(u)
            /\ ConfirmedTodayClaim(u) )
          => /\ last'.asked \in { {<<"teeth", TRUE>>}, {<<"teeth", FALSE>>} }
             /\ last'.asked = {<<"teeth", FALSE>>}
                => /\ last'.result = "routine_required"
                   /\ ~kid_timer_running'
                   /\ kid_timer_start_time' = None
             /\ last'.asked = {<<"teeth", TRUE>>}
                => /\ last'.result = (IF AllowedHours(u) = "ok" THEN "started" ELSE AllowedHours(u))
                   /\ (last'.result = "started") <=> kid_timer_running'
      ]_vars

\* lunch confirmed, teeth=yes, and the allowed-hours gate refused the start
C13_Witness ==
    /\ last.op = "start"
    /\ users_db[last.user] = KidLunchAfternoon
    /\ ConfirmedTodayClaim(last.user)
    /\ last.asked = {<<"teeth", TRUE>>}
    /\ last.result = "outside"
    /\ ~kid_timer_running

\* C14: inside the lunch window with lunch not yet confirmed today, answering
\* lunch=no lets the start proceed without the routine refusing it, asks no
\* teeth question and records no LunchConfirmation, so the next attempt in the
\* window finds no confirmation and is asked the lunch question again.
C14_LunchNoProceeds ==
    [][ \A u \in Users :
          ( /\ last'.op = "start"
            /\ last'.user = u
            /\ LunchEnforced(u)
            /\ InLunchWindowClaim(u)
            /\ ~ConfirmedTodayClaim(u) )
          => /\ \E a \in BOOLEAN : <<"lunch", a>> \in last'.asked
             /\ <<"lunch", FALSE>> \in last'.asked
                => /\ last'.asked = {<<"lunch", FALSE>>}
                   /\ last'.result # "routine_required"
                   /\ lunch_confirmed_today' = lunch_confirmed_today
      ]_vars

\* lunch=no at 12:30: the session started and nothing is confirmed
C14_Witness ==
    /\ last.op = "start"
    /\ users_db[last.user] = KidLunch
    /\ last.asked = {<<"lunch", FALSE>>}
    /\ last.result = "started"
    /\ kid_timer_running
    /\ last.user \notin DOMAIN lunch_confirmed_today

\* C15: a LunchConfirmation has effect only on the calendar day it was
\* recorded: an attempt in the lunch window on a later day is asked the lunch
\* question again; and a confirmation never skips the teeth question: an
\* attempt in the window with lunch confirmed today is asked about the teeth.
C15_ConfirmationOnlyThatDay ==
    [][ \A u \in Users :
          (last'.op = "start" /\ last'.user = u /\ LunchEnforced(u) /\ InLunchWindowClaim(u))
          => /\ (u \in DOMAIN lunch_confirmed_today /\ lunch_confirmed_today[u] < CalendarDay)
                => \E a \in BOOLEAN : <<"lunch", a>> \in last'.asked
             /\ (u \in DOMAIN lunch_confirmed_today /\ lunch_confirmed_today[u] = CalendarDay)
                => \E a \in BOOLEAN : <<"teeth", a>> \in last'.asked
      ]_vars

\* on day 1 the lunch question was asked although lunch was confirmed on day 0
C15_Witness ==
    /\ last.op = "start"
    /\ CalendarDay = 1
    /\ last.user \in DOMAIN lunch_confirmed_today
    /\ lunch_confirmed_today[last.user] = 0
    /\ last.asked = {<<"lunch", FALSE>>}


\* the sum of the HH:MM:SS duration fields of the intervals of log whose
\* start date is day
RECURSIVE DurationsStartedOn(_, _)
DurationsStartedOn(log, day) ==
    IF log = << >> THEN 0
    ELSE LET e == Head(log)
         IN  (IF e.start[1] = day
              THEN e.duration[1] * 3600 + e.duration[2] * 60 + e.duration[3]
              ELSE 0)
             + DurationsStartedOn(Tail(log), day)

\* the whole seconds the live session of u has run, 0 when u has none
LiveElapsed(u) ==
    IF kid_timer_running /\ current_kid_user = u
    THEN (now - kid_timer_start_time) \div TicksPerSec
    ELSE 0

\* C16: for every set of persisted intervals of a user and every clock value,
\* the daily usage total equals the sum of the parsed HH:MM:SS duration field
\* of each interval whose start date is today, plus the whole seconds of
\* (now - live start) when a live session of that same user is running;
\* intervals starting on other days contribute nothing, whatever their stop
\* date.  A LimitReached(daily) event reports that total.
C16_DailyTotal ==
    /\ \A u \in Users :
         DailyUsageNow(u) = DurationsStartedOn(sessions[u], CalendarDay) + LiveElapsed(u)
    /\ \A e \in events :
         e.kind = "daily"
         => e.usage = DurationsStartedOn(sessions[e.user], CalendarDay) + LiveElapsed(e.user)

\* on day 1, with a live session of UserA running, the interval that started
\* on day 0 and stopped on day 1 is left out and the 30 seconds started on
\* day 1 are counted
C16_Witness ==
    /\ last.op = "check_daily"
    /\ last.user = UserA
    /\ CalendarDay = 1
    /\ kid_timer_running
    /\ current_kid_user = UserA
    /\ \E i \in 1 .. Len(sessions[UserA]) :
         sessions[UserA][i].start[1] = 0 /\ sessions[UserA][i].stop[1] = 1
    /\ DailyUsageNow(UserA) = 30 + LiveElapsed(UserA)
    /\ LiveElapsed(UserA) > 0


\* C17: the elapsed time of a live session is added to a usage total only if
\* the live session's own start satisfies the window predicate: a live
\* session started before today contributes nothing to today's daily total,
\* and a live session started before the last rest boundary contributes
\* nothing to the block usage.
C17_LiveCountedOnlyInWindow ==
    \A u \in Users :
        (kid_timer_running /\ current_kid_user = u /\ kid_timer_start_time # None)
        => /\ (kid_timer_start_time \div (24 * 60 * 60 * TicksPerSec)) # CalendarDay
              => DailyUsageNow(u) = _calculate_daily_usage(u, sessions[u], FALSE, None, u)
           /\ ( /\ u \in DOMAIN kid_rest_periods
                /\ kid_timer_start_time < kid_rest_periods[u].start_time
                                           + kid_rest_periods[u].duration_minutes * 60 * TicksPerSec )
              => BlockUsageNow(u) = _calculate_block_usage(u, sessions[u], kid_rest_periods, FALSE, None, u)


\* the implied end of the RestState of u, start_time + duration_minutes
ImpliedRestEnd(u) ==
    kid_rest_periods[u].start_time + kid_rest_periods[u].duration_minutes * 60 * TicksPerSec

IsResting(u) == _is_user_in_rest(u, kid_rest_periods)

\* C18: for a RestState, isResting(user) is true iff now < start_time +
\* duration_minutes (and false without a RestState), and it is monotonic in
\* time: while the RestState stays the same, once isResting is false it is
\* false at every later step.
C18_RestingMonotonic ==
    /\ [](\A u \in Users :
            IsResting(u) <=> (u \in DOMAIN kid_rest_periods /\ now < ImpliedRestEnd(u)))
    /\ [][ \A u \in Users :
             ( /\ u \in DOMAIN kid_rest_periods
               /\ u \in DOMAIN kid_rest_periods'
               /\ kid_rest_periods'[u] = kid_rest_periods[u]
               /\ ~IsResting(u) )
             => ~IsResting(u)'
         ]_vars

\* the clock has just reached the implied end of UserA's rest: not resting
C18_Witness ==
    /\ last.op = "clock"
    /\ UserA \in DOMAIN kid_rest_periods
    /\ now = ImpliedRestEnd(UserA)
    /\ ~IsResting(UserA)

\* C19: the rest period started after a block-limit breach lasts the user's
\* configured cooldown length, the rest_minutes of the user document, and 60
\* minutes only when no cooldown length is configured.
C19_RestLastsConfiguredCooldown ==
    \A u \in Users :
        u \in DOMAIN kid_rest_periods
        => kid_rest_periods[u].duration_minutes
             = (IF Has(users_db[u], "rest_minutes") THEN users_db[u].rest_minutes ELSE 60)


\* C20: at every reachable state each user has at most one LiveSession, with
\* one start_time; while a LiveSession exists no button press is handled as a
\* start: no further LiveSession is created and, as long as the session
\* runs, its start_time stays the same.
C20_SingleLiveSession ==
    /\ [](kid_timer_running => kid_timer_start_time # None)
    /\ [][ (kid_timer_running /\ kid_timer_start_time # None)
           => /\ last'.op # "start"
              /\ started' = started
              /\ kid_timer_running' => kid_timer_start_time' = kid_timer_start_time
         ]_vars

\* a press made while the session of 15:00:00 was running was handled as its
\* stop: the interval saved carries the start the session had all along
C20_Witness ==
    /\ last.op = "stop"
    /\ started = 1
    /\ ~kid_timer_running
    /\ Len(sessions[last.user]) > 0
    /\ sessions[last.user][Len(sessions[last.user])].start = <<0, 15, 0, 0>>
    /\ sessions[last.user][Len(sessions[last.user])].stop = <<0, 15, 1, 0>>


\* ------------------------------------------------------ the session log
\* an entry whose start and stop both parse
WellFormedEntry(e) == ValidDateTime(e.start) /\ ValidDateTime(e.stop)

\* stored stop minus stored start of a well-formed entry, in whole seconds
EntrySpanSeconds(e) == (ParseDateTime(e.stop) - ParseDateTime(e.start)) \div TicksPerSec

\* a step in which the Start/Stop button stops a session and saves it
StopSaved == kid_timer_running /\ last'.op = "stop" /\ last'.result = "saved"

\* C21: after a stop of a same-day session that was saved, the user's
\* session list holds the interval of that session, and its duration string
\* parsed back to seconds equals the difference, in whole seconds, between
\* its stored stop and start.
C21_StopRoundTrip ==
    [][ (StopSaved /\ DateOf(kid_timer_start_time) = DateOf(now))
        => \E i \in 1 .. Len(sessions'[current_kid_user]) :
              LET e == sessions'[current_kid_user][i]
              IN  /\ e.start = FormatDateTime(kid_timer_start_time)
                  /\ e.stop = FormatDateTime(now)
                  /\ DurationSeconds(e.duration) = EntrySpanSeconds(e) ]_vars

\* the ranges of two well-formed entries overlap in time
EntriesOverlap(e, f) ==
    /\ ParseDateTime(e.start) < ParseDateTime(f.stop)
    /\ ParseDateTime(e.stop) > ParseDateTime(f.start)

\* C22: after any sequence of live start/stop, manual entry, edit and delete
\* operations, no two intervals of one user's session log overlap in time.
C22_NoOverlapInLog ==
    \A u \in Users : \A i, j \in 1 .. Len(sessions[u]) :
        (i < j /\ WellFormedEntry(sessions[u][i]) /\ WellFormedEntry(sessions[u][j]))
        => ~EntriesOverlap(sessions[u][i], sessions[u][j])

\* a clock time of day HH:MM as typed into the manual entry dialog
TypedHM(s) == Len(s) = 2 /\ s[1] \in 0 .. 23 /\ s[2] \in 0 .. 59

\* the answer given to the prompt p of the last operation
Typed(op, p) == (CHOOSE a \in op.asked : a[1] = p)[2]

\* the last operation op is a manual entry or an edit with a readable range
RangeRequest(op) ==
    \/ op.op = "manual" /\ TypedHM(Typed(op, "start")) /\ TypedHM(Typed(op, "stop"))
    \/ op.op = "edit" /\ ValidDateTime(Typed(op, "start")) /\ ValidDateTime(Typed(op, "stop"))

\* the start of the range requested by op
RequestStart(op) ==
    IF op.op = "manual"
    THEN LET hm == Typed(op, "start") IN At(Typed(op, "date"), hm[1], hm[2], 0, 0)
    ELSE ParseDateTime(Typed(op, "start"))

\* the stop of the range requested by op; a manual stop whose clock time is
\* earlier than the start's is dated the next day
RequestStop(op) ==
    IF op.op = "manual"
    THEN LET hm == Typed(op, "stop")
             same_day == At(Typed(op, "date"), hm[1], hm[2], 0, 0)
         IN  IF same_day < RequestStart(op) THEN same_day + TicksPerDay ELSE same_day
    ELSE ParseDateTime(Typed(op, "stop"))

\* the requested range overlaps an interval of log other than the edited one
RequestOverlaps(op, log) ==
    \E i \in 1 .. Len(log) :
        /\ op.op = "edit" => i # Typed(op, "index")
        /\ WellFormedEntry(log[i])
        /\ RequestStart(op) < ParseDateTime(log[i].stop)
        /\ RequestStop(op) > ParseDateTime(log[i].start)

\* C23: a manual entry or an edit whose [start, stop] range overlaps another
\* interval of the same user (start < other.stop and stop > other.start) is
\* rejected and leaves the user's persisted session log unchanged.
C23_OverlapRejected ==
    [][ (last'.op \in {"manual", "edit"} /\ RangeRequest(last')
         /\ RequestStart(last') <= RequestStop(last')
         /\ RequestOverlaps(last', sessions[last'.user]))
        => (last'.result = "overlap" /\ sessions' = sessions) ]_vars

\* an edit has just been rejected for overlapping another interval of the log
C23_Witness ==
    /\ last.op = "edit"
    /\ last.result = "overlap"
    /\ RangeRequest(last)
    /\ RequestOverlaps(last, sessions[last.user])

\* the duration field of e reads as three numbers
WellFormedDuration(e) == Len(e.duration) = 3

\* C24: every interval of a user's session log satisfies start <= stop and
\* duration = stop - start, after any sequence of live stops, manual entries
\* (overnight ones included) and edits.
C24_IntervalConsistent ==
    \A u \in Users : \A i \in 1 .. Len(sessions[u]) :
        LET e == sessions[u][i]
        IN  /\ WellFormedEntry(e)
            /\ WellFormedDuration(e)
            /\ ParseDateTime(e.start) <= ParseDateTime(e.stop)
            /\ DurationSeconds(e.duration) = EntrySpanSeconds(e)

\* C25: when add_session_log_to_user fails to append the interval, stop still
\* completes the Running -> Idle transition: the timer is no longer running,
\* the live session is cleared and the tick is cancelled (and the log is as
\* it was).
C25_StopCompletesOnSaveFailure ==
    [][ (kid_timer_running /\ last'.op = "stop" /\ last'.result = "save_failed")
        => /\ ~kid_timer_running'
           /\ kid_timer_start_time' = None
           /\ kid_timer_job' = "none"
           /\ sessions' = sessions ]_vars

\* a stop whose save failed has just been made, and the timer is idle
C25_Witness ==
    /\ last.op = "stop"
    /\ last.result = "save_failed"
    /\ ~kid_timer_running
    /\ sessions[last.user] = << >>

\* ------------------------------------------- notifications and their cause
\* the interval the stop of the running session stores
StoppedInterval ==
    [start |-> FormatDateTime(kid_timer_start_time), stop |-> FormatDateTime(now),
     duration |-> _format_duration(now - kid_timer_start_time)]

BreachPending(u) ==
    \/ /\ Has(users_db[u], "max_daily_minutes")
       /\ DailyUsageNow(u) >= DailyLimitSeconds(u)
       /\ raised[<<"daily", u, Today>>] = 0
    \/ /\ Has(users_db[u], "max_session_minutes")
       /\ Get(users_db[u], "enforce_rest", TRUE)
       /\ BlockUsageNow(u) >= BlockLimitSeconds(u)
       /\ raised[<<"block", u, Today>>] = 0

\* C27: while a session is running each tick re-evaluates the limit checks,
\* so a tick that runs when the usage including the live session has reached
\* a configured limit raises the corresponding event, before the session is
\* stopped.
C27_TickRaisesAtLimit ==
    [][ (last'.op = "tick" /\ kid_timer_running /\ kid_timer_start_time # None
         /\ current_kid_user # NoUser /\ BreachPending(current_kid_user))
        => \E e \in events' : e.user = current_kid_user /\ e.kind \in {"daily", "block"} ]_vars

\* the after() callbacks of _update_kid_timer that are pending
PendingTicks == orphan_jobs + (IF kid_timer_job = "live" THEN 1 ELSE 0)

\* C28: when the session stops or the kid view is torn down the scheduled
\* tick is cancelled: no tick is pending for a session that is gone, and at
\* most one tick chain is active at any time, also when a new session is
\* started right after the teardown.
C28_NoOrphanTick ==
    /\ ~kid_timer_running => PendingTicks = 0
    /\ PendingTicks <= 1

\* ------------------------------------------------------ one user, another
\* the days a notification key can name
KeyDays == 0 .. (Len(DateNames) - 1)

\* the daily flags of v for the days in D, and the block flags of v
DailyFlagsOf(v, D) == { DailyKey(v, d) : d \in D } \cap daily_limit_notifications
BlockFlagsOf(v) == { BlockKey(v, d) : d \in KeyDays } \cap block_limit_notifications

\* the RestState and the LunchConfirmation of v, None when there is none
RestStateOf(v) == IF v \in DOMAIN kid_rest_periods THEN kid_rest_periods[v] ELSE None
LunchConfirmationOf(v) == IF v \in DOMAIN lunch_confirmed_today THEN lunch_confirmed_today[v] ELSE None

\* the usage totals of v as the checks read them
UsageTotalsOf(v) == << DailyUsageNow(v), BlockUsageNow(v) >>

\* the usage totals of v from v's persisted log alone
PersistedTotalsOf(v) ==
    << SumDaily(sessions[v], Today),
       IF _is_user_in_rest(v, kid_rest_periods) THEN 0
       ELSE SumBlock(sessions[v], Today, _get_last_rest_end_time(v, kid_rest_periods)) >>

\* a step in which the Start/Stop button was pressed or a limit check was run
\* for the user u
ActsFor(u) ==
    /\ last'.user = u
    /\ last'.op \in {"start", "stop", "check_daily", "check_block", "check_rest_end"}

\* what a step leaves alone of v: its RestState, block flags, lunch
\* confirmation, usage totals and its daily flags of the days in D
FrameOf(v, D) ==
    /\ RestStateOf(v)' = RestStateOf(v)
    /\ BlockFlagsOf(v)' = BlockFlagsOf(v)
    /\ LunchConfirmationOf(v)' = LunchConfirmationOf(v)
    /\ UsageTotalsOf(v)' = UsageTotalsOf(v)
    /\ DailyFlagsOf(v, D)' = DailyFlagsOf(v, D)

\* the live session of another user is not counted in v's usage
LiveOfOthersNotCounted(v) ==
    (kid_timer_running /\ current_kid_user # v) => UsageTotalsOf(v) = PersistedTotalsOf(v)

\* C29 as stated: starting, stopping or checking limits for user A never
\* changes user B's RestState, notification flags, LunchConfirmation or usage
\* totals, and A's live session is never counted in B's usage.
C29_NoCrossUserEffect ==
    [][ \A u, v \in Users :
          (u # v /\ ActsFor(u)) => (FrameOf(v, KeyDays) /\ LiveOfOthersNotCounted(v)') ]_vars

\* C29: starting, stopping or checking limits for user A never changes user
\* B's RestState, block flags, LunchConfirmation or usage totals, nor B's
\* daily flags of today and of yesterday, and A's live session is never
\* counted in B's usage; B's daily flags more than one day old may be purged
\* by the cleanup that A's daily check runs.
C29_CrossUserFrame ==
    [][ \A u, v \in Users :
          (u # v /\ ActsFor(u))
          => (FrameOf(v, {Today - 1, Today} \cap KeyDays) /\ LiveOfOthersNotCounted(v)') ]_vars

\* UserA's daily check has just raised its event while UserA's session runs,
\* UserA has a RestState and a lunch confirmation, and UserB's flag of today
\* is set and was left alone
C29_Witness ==
    /\ last.op = "check_daily"
    /\ last.user = UserA
    /\ \E e \in events : e.kind = "daily" /\ e.user = UserA
    /\ kid_timer_running
    /\ current_kid_user = UserA
    /\ UserA \in DOMAIN kid_rest_periods
    /\ UserA \in DOMAIN lunch_confirmed_today
    /\ DailyKey(UserB, Today) \in daily_limit_notifications
    /\ UsageTotalsOf(UserB) = PersistedTotalsOf(UserB)
    /\ UsageTotalsOf(UserB)[1] > 0

\* ------------------------------------------------------ the rest boundary
\* the seconds of the intervals of log started today at or after boundary
RECURSIVE DurationsStartedFrom(_, _)
DurationsStartedFrom(log, boundary) ==
    IF log = << >> THEN 0
    ELSE (IF /\ WellFormedEntry(Head(log))
             /\ WellFormedDuration(Head(log))
             /\ Head(log).start[1] = CalendarDay
             /\ ParseDateTime(Head(log).start) >= boundary
          THEN DurationSeconds(Head(log).duration) ELSE 0)
         + DurationsStartedFrom(Tail(log), boundary)

\* the implied end of the rest period u had last: of its RestState when it
\* has one, else of the RestState deleted last (None: u never had a rest)
LastRestEnd(u) ==
    IF u \in DOMAIN kid_rest_periods THEN ImpliedRestEnd(u) ELSE rest_over[u]

\* lastRestBoundary(u) as the claim defines it
BoundaryClaim(u) ==
    IF u \in DOMAIN kid_rest_periods THEN ImpliedRestEnd(u)
    ELSE CalendarDay * 24 * 60 * 60 * TicksPerSec

C31_RestingReadsZero ==
    /\ [](\A u \in Users : IsResting(u) => BlockUsageNow(u) = 0)
    /\ [][ \A u \in Users :
             (last'.op = "check_block" /\ last'.user = u /\ IsResting(u))
             => (kid_rest_periods' = kid_rest_periods /\ events' = {}) ]_vars

\* checkBlockLimit has just been run for UserA, who is resting with a
\* persisted interval of today and a live session longer than the budget
C31_Witness ==
    /\ last.op = "check_block"
    /\ last.user = UserA
    /\ last.result = "none"
    /\ IsResting(UserA)
    /\ SumDaily(sessions[UserA], Today) > 0
    /\ kid_timer_running
    /\ current_kid_user = UserA
    /\ LiveElapsed(UserA) >= BlockLimitSeconds(UserA)

\* ------------------------------------------------------ the flag cleanup
\* the flags of either kind whose day is more than one day before today
StaleDailyFlags ==
    { DailyKey(u, d) : u \in Users, d \in { x \in KeyDays : Today - x > 1 } }
        \cap daily_limit_notifications
StaleBlockFlags ==
    { BlockKey(u, d) : u \in Users, d \in { x \in KeyDays : Today - x > 1 } }
        \cap block_limit_notifications

\* a step in which one of the limit checks was run
CheckCycle == last'.op \in {"check_daily", "check_block", "check_rest_end"}

DailyCheckRaises(u) ==
    /\ Has(users_db[u], "max_daily_minutes")
    /\ DailyKey(u, Today) \notin daily_limit_notifications
    /\ DailyUsageNow(u) >= users_db[u].max_daily_minutes

\* the block check of u raises whenever the rest is enforced, today's block
\* flag is not set and the block usage has reached the block budget
BlockCheckRaises(u) ==
    /\ Has(users_db[u], "max_session_minutes")
    /\ Get(users_db[u], "enforce_rest", TRUE)
    /\ BlockKey(u, Today) \notin block_limit_notifications
    /\ BlockUsageNow(u) >= BlockLimitSeconds(u)

\* C33: the daily and block budgets are independent. The outcome of
\* checkDailyLimit depends on the daily usage and the daily flag only, and
\* it leaves the RestState and the block flags alone; the outcome of
\* checkBlockLimit depends on the block usage and the block flag only, and
\* it leaves the daily flags alone; reaching the daily limit, in a check or
\* at a stop, starts no rest period.
C33_BudgetsIndependent ==
    [][ \A u \in Users :
          /\ (last'.op = "check_daily" /\ last'.user = u)
             => /\ (last'.result = "raised") = DailyCheckRaises(u)
                /\ kid_rest_periods' = kid_rest_periods
                /\ block_limit_notifications' = block_limit_notifications
          /\ (last'.op = "check_block" /\ last'.user = u)
             => /\ (last'.result = "raised") = BlockCheckRaises(u)
                /\ daily_limit_notifications' = daily_limit_notifications
          /\ (last'.op = "stop" /\ last'.user = u)
             => /\ kid_rest_periods' = kid_rest_periods
                /\ block_limit_notifications' = block_limit_notifications ]_vars

\* the daily event has just been raised for UserA, who is resting after a
\* block breach of today: the RestState and both flags are there
C33_Witness ==
    /\ last.op = "check_daily"
    /\ last.user = UserA
    /\ last.result = "raised"
    /\ IsResting(UserA)
    /\ BlockKey(UserA, Today) \in block_limit_notifications
    /\ DailyKey(UserA, Today) \in daily_limit_notifications

\* ------------------------------------------------ malformed log records
\* the start of e reads as YYYY-MM-DD HH:MM:SS, its duration as HH:MM:SS
ReadableStart(e) ==
    /\ Len(e.start) = 4
    /\ e.start[2] \in 0 .. 23 /\ e.start[3] \in 0 .. 59 /\ e.start[4] \in 0 .. 59
ReadableDuration(e) == Len(e.duration) = 3

\* the seconds of the readable intervals of log started today at or after
\* the clock reading boundary
RECURSIVE ReadableSeconds(_, _)
ReadableSeconds(log, boundary) ==
    IF log = << >> THEN 0
    ELSE LET e == Head(log)
         IN  (IF /\ ReadableStart(e)
                 /\ ReadableDuration(e)
                 /\ e.start[1] = CalendarDay
                 /\ ((e.start[1] * 24 + e.start[2]) * 60 + e.start[3]) * 60 + e.start[4]
                      >= boundary \div TicksPerSec
              THEN e.duration[1] * 3600 + e.duration[2] * 60 + e.duration[3]
              ELSE 0)
             + ReadableSeconds(Tail(log), boundary)

\* C34: a persisted interval whose start or duration cannot be parsed is
\* skipped by the usage computation: the daily total and the block total are
\* the sums over the readable intervals in their windows (plus the live
\* session), and a daily event reports that total.
C34_MalformedSkipped ==
    \A u \in Users :
        /\ DailyUsageNow(u) = ReadableSeconds(sessions[u], 0) + LiveElapsed(u)
        /\ ~IsResting(u)
           => BlockUsageNow(u) = ReadableSeconds(sessions[u], BoundaryClaim(u)) + LiveElapsed(u)
        /\ \A e \in events :
             (e.kind = "daily" /\ e.user = u)
             => e.usage = ReadableSeconds(sessions[u], 0) + LiveElapsed(u)

\* the daily check has just reported the one readable minute of UserA's log,
\* which also holds a record that cannot be parsed
C34_Witness ==
    /\ last.op = "check_daily"
    /\ last.user = UserA
    /\ \E e \in events : e.kind = "daily" /\ e.user = UserA /\ e.usage = 60
    /\ \E i \in 1 .. Len(sessions[UserA]) :
         ~(ReadableStart(sessions[UserA][i]) /\ ReadableDuration(sessions[UserA][i]))
    /\ BlockUsageNow(UserA) = 60

\* ------------------------------------------------ the end of a session
\* C35: a live session leaves the Running state only through stop, which
\* appends its interval to the user's log: a switch to the parent view or to
\* another kid profile does not discard a running session unrecorded.
C35_RunningEndsOnlyByStop ==
    [][ (kid_timer_running /\ ~kid_timer_running')
        => /\ last'.op = "stop"
           /\ \E i \in 1 .. Len(sessions'[current_kid_user]) :
                sessions'[current_kid_user][i] = StoppedInterval ]_vars

\* ------------------------------------------------ one rest a day
\* C36: checkBlockLimit starts at most one rest period per user and calendar
\* day: once the block flag of today is set, a later check of the same day
\* starts no rest and raises nothing, also when the rest has ended and the
\* block budget is breached again.
C36_OneRestPerDay ==
    /\ [](\A u \in Users : \A d \in 0 .. MaxDay : raised[<<"block", u, d>>] <= 1)
    /\ [][ \A u \in Users :
             (last'.op = "check_block" /\ last'.user = u
              /\ BlockKey(u, Today) \in block_limit_notifications)
             => /\ kid_rest_periods' = kid_rest_periods
                /\ block_limit_notifications' = block_limit_notifications
                /\ events' = {} ]_vars

\* checkBlockLimit has just been run for UserA, whose rest of today is over
\* and whose block usage is at the budget again, and nothing was raised
C36_Witness ==
    /\ last.op = "check_block"
    /\ last.user = UserA
    /\ last.result = "none"
    /\ BlockKey(UserA, Today) \in block_limit_notifications
    /\ raised[<<"block", UserA, Today>>] = 1
    /\ ~IsResting(UserA)
    /\ BlockUsageNow(UserA) >= BlockLimitSeconds(UserA)

\* ------------------------------------------------ the check made by stop
\* a step in which the Start/Stop button stops the session of u
StopOf(u) == kid_timer_running /\ current_kid_user = u /\ last'.op = "stop"

\* the seconds the interval of the stopped session adds to today's total
\* of log: none when it did not start today or when log holds it already
StoppedSeconds(log) ==
    IF \/ kid_timer_start_time \div (24 * 60 * 60 * TicksPerSec) # CalendarDay
       \/ \E i \in 1 .. Len(log) : log[i] = StoppedInterval
    THEN 0
    ELSE (now - kid_timer_start_time) \div TicksPerSec

\* the daily total of u read from the persisted log alone
PersistedDaily(u) == DurationsStartedOn(sessions[u], CalendarDay)

\* C37: the daily check run by stop counts the session just stopped exactly
\* once. The usage read after the stop has no in-progress part; when the
\* append succeeded it is the total of the earlier intervals plus the stopped
\* one, when it failed it is the total of the earlier intervals; and that is
\* the usage a daily event raised by the stop reports.
C37_StoppedCountedOnce ==
    [][ \A u \in Users :
          StopOf(u)
          => /\ DailyUsageNow(u)' = PersistedDaily(u)'
             /\ last'.result = "saved"
                => PersistedDaily(u)' = PersistedDaily(u) + StoppedSeconds(sessions[u])
             /\ last'.result = "save_failed" => PersistedDaily(u)' = PersistedDaily(u)
             /\ \A e \in events' : e.kind = "daily" => e.usage = PersistedDaily(u)' ]_vars

\* a stop has just saved a one-minute session of UserA and raised the daily
\* event with a usage of 60 seconds
C37_Witness ==
    /\ last.op = "stop"
    /\ last.user = UserA
    /\ last.result = "saved"
    /\ \E e \in events : e.kind = "daily" /\ e.user = UserA /\ e.usage = 60
    /\ DailyUsageNow(UserA) = 60

\* ------------------------------------------------ a refused start
\* a step in which a start attempt of u was refused by a gate
StartRefused(u) == last'.op = "start" /\ last'.user = u /\ last'.result # "started"

\* C38: a start attempt refused by a gate leaves the session state
\* unchanged: the controller stays idle, no live session and no tick are
\* created, no interval is appended, nothing is raised and the RestState and
\* the flags are untouched; only the lunch confirmation of that user, for
\* today, may have been recorded.
C38_RefusedStartFrame ==
    [][ \A u \in Users :
          StartRefused(u)
          => /\ ~kid_timer_running'
             /\ kid_timer_start_time' = None
             /\ << kid_timer_job, orphan_jobs >>' = << kid_timer_job, orphan_jobs >>
             /\ sessions' = sessions
             /\ events' = {}
             /\ kid_rest_periods' = kid_rest_periods
             /\ daily_limit_notifications' = daily_limit_notifications
             /\ block_limit_notifications' = block_limit_notifications
             /\ \A v \in Users \ {u} : LunchConfirmationOf(v)' = LunchConfirmationOf(v)
             /\ LunchConfirmationOf(u)' \in {LunchConfirmationOf(u), CalendarDay} ]_vars

\* a start of UserA has just been refused by the lunch routine, after the
\* lunch confirmation of today was recorded in the same attempt
C38_Witness ==
    /\ last.op = "start"
    /\ last.user = UserA
    /\ last.result = "routine_required"
    /\ <<"teeth", FALSE>> \in last.asked
    /\ LunchConfirmationOf(UserA) = CalendarDay
    /\ ~kid_timer_running
    /\ sessions[UserA] = << >>

\* C39: the flag cleanup never removes the daily flag of today, whatever the
\* user id: after a checkDailyLimit call has raised LimitReached(daily) for a
\* user, set today's flag and run the cleanup, the flag of that user and day
\* is in the daily flag set, where the next check of the day finds it.
C39_TodaysFlagSurvivesCleanup ==
    \A u \in DOMAIN users_db :
      ( /\ last.op = "check_daily"
        /\ last.user = u
        /\ last.result = "raised" )
      => DailyKey(u, Today) \in daily_limit_notifications

====
